---- MODULE Spec2Model ----
(***************************************************************************)
(* A model of the shade-aware router of luxcap: SunCalculator              *)
(* (src/sun_calculator.py), ShadeRouter (src/shade_router.py) and the      *)
(* process-wide ROUTING_PARAMS (src/config.py).                            *)
(*                                                                         *)
(* Numbers.  Python floats are modelled in fixed point:                    *)
(*   - angles are whole degrees; sines and cosines are scaled by TrigOne;  *)
(*   - a shade score is scaled by ScoreOne (ScoreOne stands for 1.0);      *)
(*   - a blend weight is scaled by WeightOne (6 stands for 0.6);           *)
(*   - combined_weight is therefore scaled by WeightOne * ScoreOne;        *)
(*   - lengths and positions are whole metres.                             *)
(* Geography.  Graph nodes and query points lie on one meridian, where the *)
(* haversine formula reduces to R * |delta latitude|, so a coordinate is   *)
(* the signed distance in metres along that meridian.                      *)
(* Geometry.  The plane of the shade computation is a grid of square       *)
(* cells of side CellSize metres; a geometry is the set of its cells and   *)
(* its area is the number of cells.                                        *)
(***************************************************************************)
EXTENDS Integers, Sequences, FiniteSets, TLC

None == "None"

TrigOne == 100 * 100
ScoreOne == 10 * 10
WeightOne == 2 * 5
CellSize == 2 * 5

Abs(x) == IF x < 0 THEN -x ELSE x

\* n / d rounded to the nearest integer (d > 0)
Round(n, d) == (2 * n + d) \div (2 * d)

Min(a, b) == IF a <= b THEN a ELSE b
Max(a, b) == IF a >= b THEN a ELSE b

SeqToSet(s) == {s[i] : i \in 1..Len(s)}

RECURSIVE SeqSum(_)
SeqSum(s) == IF s = <<>> THEN 0 ELSE Head(s) + SeqSum(Tail(s))

-----------------------------------------------------------------------------
(* math.sin / math.cos / math.asin / math.acos / math.tan on whole degrees *)

SinTab ==
  <<0, 175, 349, 523, 698, 872, 1045, 1219, 1392, 1564, 1736, 1908, 2079,
    2250, 2419, 2588, 2756, 2924, 3090, 3256, 3420, 3584, 3746, 3907, 4067,
    4226, 4384, 4540, 4695, 4848, 5000, 5150, 5299, 5446, 5592, 5736, 5878,
    6018, 6157, 6293, 6428, 6561, 6691, 6820, 6947, 7071, 7193, 7314, 7431,
    7547, 7660, 7771, 7880, 7986, 8090, 8192, 8290, 8387, 8480, 8572, 8660,
    8746, 8829, 8910, 8988, 9063, 9135, 9205, 9272, 9336, 9397, 9455, 9511,
    9563, 9613, 9659, 9703, 9744, 9781, 9816, 9848, 9877, 9903, 9925, 9945,
    9962, 9976, 9986, 9994, 9998, 10000>>

Sin(deg) ==
  LET a == deg % 360
  IN  IF a <= 90 THEN SinTab[a + 1]
      ELSE IF a <= 180 THEN SinTab[180 - a + 1]
      ELSE IF a <= 270 THEN -SinTab[a - 180 + 1]
      ELSE -SinTab[360 - a + 1]

Cos(deg) == Sin(deg + 90)

\* the whole degree in -90..90 whose sine is nearest to v (v in -TrigOne..TrigOne)
ASin(v) ==
  LET m == Abs(v)
      d == Cardinality({k \in 1..90 : SinTab[k] + SinTab[k + 1] <= 2 * m})
  IN  IF v < 0 THEN -d ELSE d

ACos(v) == 90 - ASin(v)


-----------------------------------------------------------------------------
(* SunCalculator (src/sun_calculator.py)                                   *)
(* A date is [y, m, d], a time of day is [h, mi]; the strings the caller   *)
(* passes are such records whose fields may be out of range (malformed).   *)

latitude == 41
longitude == -74
timezone_offset == -5

\* SunCalculator(latitude, longitude): the attributes set by __init__ (lines 27-32)
SunCalculator(lat, lon) ==
  [latitude |-> lat, longitude |-> lon, timezone_offset |-> timezone_offset]

IsLeap(y) == (y % 4 = 0 /\ y % 100 # 0) \/ y % 400 = 0

DaysInMonth(y, m) ==
  IF m = 2 THEN (IF IsLeap(y) THEN 29 ELSE 28)
  ELSE IF m \in {4, 6, 9, 11} THEN 30 ELSE 31

\* datetime.strptime(date, "%Y-%m-%d") accepts the string
DateWellFormed(ds) ==
  /\ ds.y \in 1..9999
  /\ ds.m \in 1..12
  /\ ds.d \in 1..DaysInMonth(ds.y, ds.m)

\* datetime.strptime(time_of_day, "%H:%M") accepts the string
TimeWellFormed(ts) == ts.h \in 0..23 /\ ts.mi \in 0..59

RECURSIVE DaysBefore(_, _)
DaysBefore(y, m) == IF m = 1 THEN 0 ELSE DaysBefore(y, m - 1) + DaysInMonth(y, m - 1)

\* timetuple().tm_yday
tm_yday(date) == DaysBefore(date.y, date.m) + date.d

\* datetime.replace(hour = hour - timezone_offset): ValueError unless 0 <= hour <= 23
_local_to_utc(self, local_date, local_time) ==
  LET hour == local_time.h - self.timezone_offset
  IN  IF hour \in 0..23
      THEN [ok |-> TRUE, date |-> local_date, h |-> hour, mi |-> local_time.mi]
      ELSE [ok |-> FALSE, error |-> "ValueError"]

\* 23.45 * sin(360 * (284 + n) / 365), in whole degrees
_calculate_declination(self, day_of_year) ==
  Round(2345 * Sin(Round(360 * (284 + day_of_year), 365)), 100 * TrigOne)

\* mutant: the hour angle of the local solar time, 4 minutes per degree of longitude
_calculate_hour_angle_solar(self, utc_time) ==
  Round(15 * (60 * utc_time.h + utc_time.mi - 60 * 12), 60) + self.longitude

\* 15 * (hour + minute / 60 - 12), in whole degrees
_calculate_hour_angle(self, utc_time) ==
  Round(15 * (60 * utc_time.h + utc_time.mi - 60 * 12), 60)

Clamp1(v) == Max(-TrigOne, Min(TrigOne, v))

_calculate_elevation(self, declination, hour_angle) ==
  LET sin_elevation ==
        Round(Sin(self.latitude) * Sin(declination), TrigOne)
        + Round(Round(Cos(self.latitude) * Cos(declination), TrigOne) * Cos(hour_angle),
                TrigOne)
  IN  ASin(Clamp1(sin_elevation))

_calculate_azimuth(self, declination, hour_angle, elevation) ==
  IF elevation <= 0 THEN 0
  ELSE
    LET num == Round(Sin(declination) * Cos(self.latitude), TrigOne)
               - Round(Round(Cos(declination) * Sin(self.latitude), TrigOne)
                       * Cos(hour_angle), TrigOne)
        \* elevation = 90 divides by cos = 0: the float quotient is huge and is clamped
        cos_azimuth == IF Cos(elevation) = 0
                       THEN (IF num < 0 THEN -TrigOne ELSE TrigOne)
                       ELSE Clamp1(Round(num * TrigOne, Cos(elevation)))
        azimuth == ACos(cos_azimuth)
    IN  IF hour_angle > 0 THEN 360 - azimuth ELSE azimuth

calculate_sun_position(self, date, time_of_day) ==
  LET utc_time == _local_to_utc(self, date, time_of_day)
  IN  IF ~utc_time.ok THEN utc_time
      ELSE
        LET day_of_year == tm_yday(utc_time.date)
            declination == _calculate_declination(self, day_of_year)
            hour_angle == _calculate_hour_angle(self, utc_time)
            elevation == _calculate_elevation(self, declination, hour_angle)
            azimuth == _calculate_azimuth(self, declination, hour_angle, elevation)
        IN  [ok |-> TRUE,
             elevation |-> elevation,
             azimuth |-> azimuth,
             declination |-> declination,
             hour_angle |-> hour_angle]

-----------------------------------------------------------------------------
(* Shadow projection and street shade (src/sun_calculator.py)              *)

\* shapely translate: the geometry moved by (dx, dy) metres
Translate(geom, dx, dy) ==
  {<<c[1] + Round(dx, CellSize), c[2] + Round(dy, CellSize)>> : c \in geom}

\* Point.buffer(radius): the cells whose centre is within radius of the point's cell;
\* radius is diameter / 2, and a non-positive radius gives the empty polygon
PointBuffer(cell, diameter) ==
  IF diameter <= 0 THEN {}
  ELSE
    LET r == diameter \div (2 * CellSize) + 1
    IN  {c \in ((cell[1] - r)..(cell[1] + r)) \X ((cell[2] - r)..(cell[2] + r)) :
           4 * CellSize * CellSize
             * ((c[1] - cell[1]) * (c[1] - cell[1]) + (c[2] - cell[2]) * (c[2] - cell[2]))
           <= diameter * diameter}

calculate_shade_projection(building_geometry, building_height, sun_position) ==
  LET elevation == sun_position.elevation
      azimuth == sun_position.azimuth
  IN  IF elevation <= 0 THEN {}
      ELSE
        LET \* height / tan(elevation)
            shadow_length == Round(building_height * Cos(elevation), Sin(elevation))
            dx == Round(shadow_length * Sin(azimuth), TrigOne)
            dy == Round(shadow_length * Cos(azimuth), TrigOne)
            shadow == Translate(building_geometry, dx, dy)
        IN  building_geometry \cup shadow

\* the step at which shapely raises for a source's geometry: "none",
\* "intersects" (the test of line 153 or 163), "projection" (inside
\* calculate_shade_projection) or "intersection" (lines 157-158 or 170-171)
GeometryError(source) == IF "error" \in DOMAIN source THEN source.error ELSE "none"

\* lines 92-122 for a source: an exception inside calculate_shade_projection is
\* logged there and the empty polygon returned
ProjectionOf(footprint, height, error, sun_position) ==
  IF error = "projection" THEN {}
  ELSE calculate_shade_projection(footprint, height, sun_position)

\* mutant: only the footprint of the source is counted, not its shadow
ShadeAreaOfFootprint(footprint, probe, height, error, street_buffer, sun_position) ==
  IF probe \cap street_buffer # {}
  THEN LET shadow == ProjectionOf(footprint, height, error, sun_position)
       IN  IF shadow \cap street_buffer # {}
           THEN Cardinality(footprint \cap street_buffer)
           ELSE 0
  ELSE 0

\* the area one source adds to total_shade_area
ShadeAreaOf(footprint, probe, height, error, street_buffer, sun_position) ==
  IF probe \cap street_buffer # {}
  THEN LET shadow == ProjectionOf(footprint, height, error, sun_position)
       IN  IF shadow \cap street_buffer # {}
           THEN Cardinality(shadow \cap street_buffer)
           ELSE 0
  ELSE 0

\* an exception reaches the try of calculate_street_shade while the source is handled
SourceRaises(footprint, probe, height, error, street_buffer, sun_position) ==
  \/ error = "intersects"
  \/ /\ error = "intersection"
     /\ probe \cap street_buffer # {}
     /\ ProjectionOf(footprint, height, error, sun_position) \cap street_buffer # {}

RECURSIVE BuildingShade(_, _, _)
BuildingShade(buildings, street_buffer, sun_position) ==
  IF buildings = <<>> THEN 0
  ELSE LET b == Head(buildings)
       IN  ShadeAreaOf(b.geometry, b.geometry, b.height, GeometryError(b),
                       street_buffer, sun_position)
           + BuildingShade(Tail(buildings), street_buffer, sun_position)

tree_height_factor == 20

RECURSIVE TreeShade(_, _, _)
TreeShade(trees, street_buffer, sun_position) ==
  IF trees = <<>> THEN 0
  ELSE LET tr == Head(trees)
           tree_height == tr.diameter * tree_height_factor
       IN  ShadeAreaOf(PointBuffer(tr.geometry, tr.diameter), {tr.geometry},
                       tree_height, GeometryError(tr), street_buffer, sun_position)
           + TreeShade(Tail(trees), street_buffer, sun_position)

\* some source of the two loops raises out of its turn
LoopRaises(buildings, trees, street_buffer, sun_position) ==
  \/ \E i \in 1..Len(buildings) :
       SourceRaises(buildings[i].geometry, buildings[i].geometry, buildings[i].height,
                    GeometryError(buildings[i]), street_buffer, sun_position)
  \/ \E i \in 1..Len(trees) :
       SourceRaises(PointBuffer(trees[i].geometry, trees[i].diameter), {trees[i].geometry},
                    trees[i].diameter * tree_height_factor, GeometryError(trees[i]),
                    street_buffer, sun_position)

\* mutant: only a sun strictly below the horizon counts as night
calculate_street_shade_below(street_buffer, buildings, trees, sun_position) ==
  IF sun_position.elevation < 0 THEN ScoreOne
  ELSE
    LET total_area == Cardinality(street_buffer)
        total_shade_area == BuildingShade(buildings, street_buffer, sun_position)
                            + TreeShade(trees, street_buffer, sun_position)
    IN  IF LoopRaises(buildings, trees, street_buffer, sun_position)
        THEN 0
        ELSE IF total_area = 0 THEN 0
        ELSE Min(ScoreOne, Round(total_shade_area * ScoreOne, total_area))

\* mutant: the ratio of the areas is returned as it is
calculate_street_shade_uncapped(street_buffer, buildings, trees, sun_position) ==
  IF sun_position.elevation <= 0 THEN ScoreOne
  ELSE
    LET total_area == Cardinality(street_buffer)
        total_shade_area == BuildingShade(buildings, street_buffer, sun_position)
                            + TreeShade(trees, street_buffer, sun_position)
    IN  IF LoopRaises(buildings, trees, street_buffer, sun_position)
        THEN 0
        ELSE IF total_area = 0 THEN 0
        ELSE Round(total_shade_area * ScoreOne, total_area)

\* street_buffer is street_segment.buffer(10); the result is scaled by ScoreOne
calculate_street_shade(street_buffer, buildings, trees, sun_position) ==
  IF sun_position.elevation <= 0 THEN ScoreOne
  ELSE
    LET total_area == Cardinality(street_buffer)
        total_shade_area == BuildingShade(buildings, street_buffer, sun_position)
                            + TreeShade(trees, street_buffer, sun_position)
    IN  IF LoopRaises(buildings, trees, street_buffer, sun_position)
        THEN 0                      \* lines 179-181: caught, return 0.0
        ELSE IF total_area = 0 THEN 0   \* ZeroDivisionError, caught: return 0.0
        ELSE Min(ScoreOne, Round(total_shade_area * ScoreOne, total_area))

-----------------------------------------------------------------------------
(* The worlds a ShadeRouter is constructed over                            *)
(* A street row is [coords, is_valid, is_empty, buffer] with an optional   *)
(* length_m; coords are positions on the meridian and buffer is the row's  *)
(* geometry buffered by 10 m.  A building is [geometry, height, is_valid], *)
(* a tree is [geometry, diameter, is_valid].                               *)

Block(x) == {<<x, 0>>, <<x + 1, 0>>, <<x, -1>>, <<x + 1, -1>>}

Street(coords, len, x) ==
  [coords |-> coords, length_m |-> len, is_valid |-> TRUE, is_empty |-> FALSE,
   buffer |-> Block(x)]

\* two routes from 0 to 1200 (a short sunny one by 500, a longer shaded one
\* by 600), a tail to 1000 and a separate component 3500 - 3900
DiamondStreets ==
  << Street(<<0, 200, 500>>, 500, 0),
     Street(<<500, 1200>>, 700, 10),
     Street(<<0, 600>>, 700, 20),
     Street(<<600, 900, 1200>>, 700, 30),
     Street(<<1200, 1000>>, 200, 40),
     Street(<<3500, 3900>>, 400, 50) >>

DiamondBuildings ==
  << [geometry |-> {<<20, 0>>, <<21, 0>>}, height |-> 30, is_valid |-> TRUE],
     [geometry |-> {<<30, 0>>, <<31, 0>>}, height |-> 30, is_valid |-> TRUE],
     [geometry |-> {<<60, 0>>}, height |-> 30, is_valid |-> FALSE] >>

DiamondTrees ==
  << [geometry |-> <<40, 0>>, diameter |-> 20, is_valid |-> TRUE] >>

\* a line 0 - 500 - 1100 and a separate component; a row without length_m,
\* a row with an invalid geometry, a row with an empty geometry and a row
\* of a single coordinate occur
LineStreets ==
  << Street(<<0, 500>>, 500, 0),
     [coords |-> <<500, 1100>>, is_valid |-> TRUE, is_empty |-> FALSE, buffer |-> Block(10)],
     [Street(<<0, 1100>>, 900, 20) EXCEPT !.is_valid = FALSE],
     [coords |-> <<>>, length_m |-> 0, is_valid |-> TRUE, is_empty |-> TRUE, buffer |-> {}],
     Street(<<3500, 3900>>, 400, 50),
     Street(<<700>>, 50, 60) >>

LineBuildings ==
  << [geometry |-> {<<0, 0>>, <<1, 0>>}, height |-> 30, is_valid |-> TRUE],
     [geometry |-> {<<0, 0>>, <<0, -1>>}, height |-> 60, is_valid |-> TRUE] >>

DiamondWorld ==
  [street_network |-> DiamondStreets, buildings |-> DiamondBuildings, trees |-> DiamondTrees]

LineWorld ==
  [street_network |-> LineStreets, buildings |-> LineBuildings, trees |-> <<>>]

Worlds == {DiamondWorld, LineWorld}

-----------------------------------------------------------------------------
(* ShadeRouter: graph construction (src/shade_router.py)                   *)
(* An nx.Graph is [nodes, edges, data]: the nodes and the edge keys in     *)
(* insertion order and the attribute dict of every edge.  An edge key is   *)
(* the set of its end nodes, so (u, v) and (v, u) are one edge.            *)

EmptyGraph == [nodes |-> <<>>, edges |-> <<>>, data |-> <<>>]

add_node(G, n) ==
  IF n \in SeqToSet(G.nodes) THEN G ELSE [G EXCEPT !.nodes = Append(@, n)]

\* G.add_edge(u, v, **attr): an existing edge keeps its place and has its attributes updated
add_edge(G, u, v, attr) ==
  LET G2 == add_node(add_node(G, u), v)
      key == {u, v}
  IN  IF key \in DOMAIN G2.data
      THEN [G2 EXCEPT !.data = (key :> (attr @@ G2.data[key])) @@ @]
      ELSE [G2 EXCEPT !.edges = Append(@, key), !.data = (key :> attr) @@ @]

DefaultLength == 100

\* mutant: the geometry of a row is not tested before its coordinates are used
RECURSIVE BuildGraphUntested(_, _, _)
BuildGraphUntested(street_network, idx, G) ==
  IF idx > Len(street_network) THEN G
  ELSE
    LET row == street_network[idx]
        coords == row.coords
    IN  IF Len(coords) >= 2
        THEN LET start_point == coords[1]
                 end_point == coords[Len(coords)]
                 length == IF "length_m" \in DOMAIN row THEN row.length_m ELSE DefaultLength
             IN  BuildGraphUntested(street_network, idx + 1,
                                    add_edge(G, start_point, end_point,
                                             [length |-> length, geometry |-> row.buffer,
                                              original_idx |-> idx]))
        ELSE BuildGraphUntested(street_network, idx + 1, G)

RECURSIVE BuildGraph(_, _, _)
BuildGraph(street_network, idx, G) ==
  IF idx > Len(street_network) THEN G
  ELSE
    LET row == street_network[idx]
        coords == row.coords
    IN  IF row.is_valid /\ ~row.is_empty /\ Len(coords) >= 2
        THEN LET start_point == coords[1]
                 end_point == coords[Len(coords)]
                 length == IF "length_m" \in DOMAIN row THEN row.length_m ELSE DefaultLength
             IN  BuildGraph(street_network, idx + 1,
                            add_edge(G, start_point, end_point,
                                     [length |-> length, geometry |-> row.buffer,
                                      original_idx |-> idx]))
        ELSE BuildGraph(street_network, idx + 1, G)

_create_routing_graph(street_network) == BuildGraph(street_network, 1, EmptyGraph)

\* the rows with a valid geometry, as (geometry, height) or (geometry, diameter)
RECURSIVE ValidRows(_)
ValidRows(rows) ==
  IF rows = <<>> THEN <<>>
  ELSE IF Head(rows).is_valid THEN <<Head(rows)>> \o ValidRows(Tail(rows))
       ELSE ValidRows(Tail(rows))

_preprocess_shade_data(rows) == ValidRows(rows)

-----------------------------------------------------------------------------
(* ShadeRouter: nearest node, edge weights, path search                    *)

NearLimit == 1000

\* on one meridian: earth_radius * 2 * arcsin(sin(|delta lat| / 2)) = R * |delta lat|
_haversine_distance(point1, point2) == Abs(point2 - point1)

\* the scan of lines 185-194; best is <<>> (None, min_distance = inf) or <<node, distance>>
RECURSIVE NearestScan(_, _, _)
NearestScan(nodes, point, best) ==
  IF nodes = <<>> THEN best
  ELSE LET node == Head(nodes)
           distance == _haversine_distance(point, node)
       IN  IF best = <<>> \/ distance < best[2]
           THEN NearestScan(Tail(nodes), point, <<node, distance>>)
           ELSE NearestScan(Tail(nodes), point, best)

\* mutant: the 1000 m limit of line 196 is not applied
_find_nearest_node_unlimited(G, point) ==
  LET best == NearestScan(G.nodes, point, <<>>)
  IN  IF best # <<>> THEN <<best[1]>> ELSE <<>>

\* <<>> is None, <<n>> is node n
_find_nearest_node(G, point) ==
  LET best == NearestScan(G.nodes, point, <<>>)
  IN  IF best # <<>> /\ best[2] < NearLimit THEN <<best[1]>> ELSE <<>>

\* mutant: an edge that already carries a shade_score is not recomputed
EdgeAfterPassCached(edge_data, shade_score, params) ==
  IF "shade_score" \in DOMAIN edge_data THEN edge_data
  ELSE [shade_score |-> shade_score,
        combined_weight |-> params.time_weight * edge_data.length * ScoreOne
                            + params.shade_weight * (ScoreOne - shade_score) * edge_data.length]
       @@ edge_data

\* mutant: the shade term grows with the shade score
EdgeAfterPassInverted(edge_data, shade_score, params) ==
  [shade_score |-> shade_score,
   combined_weight |-> params.time_weight * edge_data.length * ScoreOne
                       + params.shade_weight * shade_score * edge_data.length]
  @@ edge_data

\* lines 221-235 for one edge: the attribute dict after the pass has handled it
EdgeAfterPass(edge_data, shade_score, params) ==
  LET shade_weight == params.shade_weight
      time_weight == params.time_weight
      normalized_shade == shade_score
      combined_weight == time_weight * edge_data.length * ScoreOne
                         + shade_weight * (ScoreOne - normalized_shade) * edge_data.length
  IN  [shade_score |-> shade_score, combined_weight |-> combined_weight] @@ edge_data

Neighbours(G, n) == {m \in SeqToSet(G.nodes) : m # n /\ {n, m} \in DOMAIN G.data}

RECURSIVE PathsFrom(_, _, _)
PathsFrom(G, path, target) ==
  LET last == path[Len(path)]
  IN  IF last = target THEN {path}
      ELSE UNION {PathsFrom(G, Append(path, m), target) :
                    m \in Neighbours(G, last) \ SeqToSet(path)}

SimplePaths(G, source, target) == PathsFrom(G, <<source>>, target)

\* networkx reads a missing weight attribute as 1
EdgeWeight(G, u, v, weight) ==
  IF weight \in DOMAIN G.data[{u, v}] THEN G.data[{u, v}][weight]
  ELSE IF weight = "combined_weight" THEN WeightOne * ScoreOne ELSE 1

RECURSIVE PathWeight(_, _, _)
PathWeight(G, path, weight) ==
  IF Len(path) < 2 THEN 0
  ELSE EdgeWeight(G, path[1], path[2], weight) + PathWeight(G, Tail(path), weight)

\* nx.shortest_path(G, source, target, weight): the paths it may return (it
\* returns one of least total weight; which one among equals is the
\* library's choice); the empty set stands for NetworkXNoPath
shortest_path(G, source, target, weight) ==
  LET all == SimplePaths(G, source, target)
  IN  {p \in all : \A q \in all : PathWeight(G, p, weight) <= PathWeight(G, q, weight)}

-----------------------------------------------------------------------------
(* Route assembly and the ordering of alternatives                         *)

\* lines 274-291: the edges_info list of a path
RECURSIVE EdgesInfo(_, _)
EdgesInfo(G, path) ==
  IF Len(path) < 2 THEN <<>>
  ELSE LET start_n == path[1]
           end_n == path[2]
           edge_data == G.data[{start_n, end_n}]
       IN  << [start |-> start_n,
               end |-> end_n,
               distance_m |-> edge_data.length,
               shade_score |-> IF "shade_score" \in DOMAIN edge_data
                               THEN edge_data.shade_score ELSE 0,
               geometry |-> edge_data.geometry] >>
           \o EdgesInfo(G, Tail(path))

RECURSIVE SumField(_, _)
SumField(edges_info, field) ==
  IF edges_info = <<>> THEN 0
  ELSE Head(edges_info)[field] + SumField(Tail(edges_info), field)

KmMetres == 1000

\* line 294: max_distance_km is <<>> (None) or <<km>>; 0 is falsy
ExceedsBudget(total_distance, max_distance_km) ==
  /\ max_distance_km # <<>>
  /\ max_distance_km[1] # 0
  /\ total_distance > max_distance_km[1] * KmMetres

\* lines 297-303: the dict _find_optimal_route returns
RouteInfo(G, path) ==
  LET edges_info == EdgesInfo(G, path)
  IN  [path |-> path,
       edges |-> edges_info,
       total_distance |-> SumField(edges_info, "distance_m"),
       total_shade_score |-> SumField(edges_info, "shade_score"),
       num_segments |-> Len(edges_info)]

\* mutant: the sum of the scores is divided by the number of nodes of the path
MeanOverNodes(edges_info) ==
  [num |-> SumField(edges_info, "shade_score"), den |-> Len(edges_info) + 1]

\* np.mean of the edges' shade scores, as the fraction num / den;
\* den = 0 is the mean of the empty list, nan
Mean(edges_info) ==
  [num |-> SumField(edges_info, "shade_score"), den |-> Len(edges_info)]

\* lines 161-169 (and 387-396): the metadata added to a route
Metadata(route_info, start_point, end_point, date, time_of_day, sun_position) ==
  [start_point |-> start_point,
   end_point |-> end_point,
   date |-> date,
   time_of_day |-> time_of_day,
   sun_position |-> sun_position,
   total_distance_km |-> [num |-> route_info.total_distance, den |-> KmMetres],
   average_shade_score |-> Mean(route_info.edges)]

\* a < b on floats: every comparison with nan is false
FloatLess(a, b) == a.den # 0 /\ b.den # 0 /\ a.num * b.den < b.num * a.den

\* list.sort(key = average_shade_score, reverse = True): x goes behind every
\* element that is not smaller than it, which keeps equal elements in order
RECURSIVE InsertDesc(_, _)
InsertDesc(sorted, x) ==
  IF sorted = <<>> THEN <<x>>
  ELSE IF FloatLess(Head(sorted).average_shade_score, x.average_shade_score)
       THEN <<x>> \o sorted
       ELSE <<Head(sorted)>> \o InsertDesc(Tail(sorted), x)

RECURSIVE SortDesc(_, _)
SortDesc(done, todo) ==
  IF todo = <<>> THEN done ELSE SortDesc(InsertDesc(done, Head(todo)), Tail(todo))

\* mutant: descending order got by an ascending stable sort and a reversal
RECURSIVE InsertAsc(_, _)
InsertAsc(sorted, x) ==
  IF sorted = <<>> THEN <<x>>
  ELSE IF FloatLess(x.average_shade_score, Head(sorted).average_shade_score)
       THEN <<x>> \o sorted
       ELSE <<Head(sorted)>> \o InsertAsc(Tail(sorted), x)

RECURSIVE SortAsc(_, _)
SortAsc(done, todo) ==
  IF todo = <<>> THEN done ELSE SortAsc(InsertAsc(done, Head(todo)), Tail(todo))

SortAlternativesReversed(alternatives) ==
  LET asc == SortAsc(<<>>, alternatives)
  IN  [i \in 1..Len(asc) |-> asc[Len(asc) + 1 - i]]

SortAlternatives(alternatives) == SortDesc(<<>>, alternatives)

\* lines 363-367, as (shade_weight, time_weight)
weight_combinations == << <<8, 2>>, <<2, 8>>, <<5, 5>> >>

\* seq[:stop] of Python: a negative stop counts from the end
PySlice(seq, stop) ==
  LET k == IF stop >= 0 THEN Min(stop, Len(seq)) ELSE Max(0, Len(seq) + stop)
  IN  SubSeq(seq, 1, k)

-----------------------------------------------------------------------------
(* The state machine                                                       *)
(* graph, building_list, tree_list: the fields of the one ShadeRouter.     *)
(* ROUTING_PARAMS: the process-wide dict of src/config.py.                 *)
(* frame[t]: the call thread t is in, its arguments, locals and position.  *)
(* An optional value is <<>> (None) or <<v>>.                              *)

VARIABLES graph, building_list, tree_list, ROUTING_PARAMS, frame

vars == <<graph, building_list, tree_list, ROUTING_PARAMS, frame>>

Threads == {1, 2}

June21 == [y |-> 2024, m |-> 6, d |-> 21]
December21 == [y |-> 2024, m |-> 12, d |-> 21]

\* date.today()
Today == December21

\* 100 and 1150 are near a node, 3600 is near the separate component, and 2200
\* is 1000 m from node 1200 of the diamond and 1100 m from node 1100 of the line
Points == {100, 1150, 2200, 3600}
DateInputs == {<<>>, <<June21>>, <<[y |-> 2024, m |-> 2, d |-> 30]>>}
TimeInputs == {<<>>, <<[h |-> 7, mi |-> 0]>>, <<[h |-> 20, mi |-> 0]>>, <<[h |-> 24, mi |-> 0]>>}
BudgetInputs == {<<>>, <<1>>}
MaxAlternatives == 4

\* the defaults of the keyword arguments
DefaultArgs ==
  [start_point |-> 0, end_point |-> 0, date |-> <<>>, time_of_day |-> <<>>,
   max_distance_km |-> <<>>, num_alternatives |-> 3]

FindQueries ==
  {[DefaultArgs EXCEPT !.start_point = q[1], !.end_point = q[2], !.date = q[3],
                       !.time_of_day = q[4], !.max_distance_km = q[5]] :
     q \in Points \X Points \X DateInputs \X TimeInputs \X BudgetInputs}

AlternativesQueries ==
  {[DefaultArgs EXCEPT !.start_point = q[1], !.end_point = q[2], !.date = q[3],
                       !.time_of_day = q[4], !.num_alternatives = q[5]] :
     q \in Points \X Points \X DateInputs \X TimeInputs \X (0..MaxAlternatives)}

IdleFrame ==
  [pc |-> "idle", op |-> "none", args |-> DefaultArgs,
   date |-> <<>>, time_of_day |-> <<>>, sun_position |-> <<>>,
   start_node |-> <<>>, end_node |-> <<>>, edge_i |-> 0, path |-> <<>>,
   used_fallback |-> FALSE, log_warning |-> FALSE,
   primary_route |-> <<>>, alternatives |-> <<>>, alt_i |-> 0,
   original |-> <<>>, exc |-> "none", outcome |-> "none", result |-> <<>>]

\* the SunCalculator the router is given, constructed with the defaults of line 19
sun_calculator == SunCalculator(latitude, longitude)

\* src/config.py lines 40-45
ConfiguredParams == [shade_weight |-> 6, time_weight |-> 4]

\* ShadeRouter.__init__ (lines 38-47) over world w, in a fresh process
Construct(w) ==
  /\ graph = _create_routing_graph(w.street_network)
  /\ building_list = _preprocess_shade_data(w.buildings)
  /\ tree_list = _preprocess_shade_data(w.trees)
  /\ ROUTING_PARAMS = ConfiguredParams
  /\ frame = [t \in Threads |-> IdleFrame]

Init == \E w \in Worlds : Construct(w)

Set(t, upd) == frame' = [frame EXCEPT ![t] = upd @@ frame[t]]

\* an exception leaves the current step: inside the try of lines 377-403 it
\* runs the finally block first, elsewhere it ends the call
Raise(t, err) ==
  IF frame[t].alt_i >= 1
  THEN Set(t, [pc |-> "restore", exc |-> err])
  ELSE Set(t, [pc |-> "done", outcome |-> err])

\* the blends of the loop of line 369
Combos(t) == PySlice(weight_combinations, frame[t].args.num_alternatives - 1)

CallFind(t, queries) ==
  /\ frame[t].pc = "idle"
  /\ \E q \in queries : Set(t, [pc |-> "parse", op |-> "find", args |-> q])
  /\ UNCHANGED <<graph, building_list, tree_list, ROUTING_PARAMS>>

\* get_route_alternatives calls find_shadiest_route without max_distance_km (line 358)
CallAlternatives(t, queries) ==
  /\ frame[t].pc = "idle"
  /\ \E q \in queries : Set(t, [pc |-> "parse", op |-> "alternatives", args |-> q])
  /\ UNCHANGED <<graph, building_list, tree_list, ROUTING_PARAMS>>

\* mutant: a string that does not parse is replaced by the default
ParseLenient(t) ==
  /\ frame[t].pc = "parse"
  /\ LET a == frame[t].args
           date == IF a.date = <<>> \/ ~DateWellFormed(a.date[1]) THEN Today
                   ELSE a.date[1]
           time_of_day == IF a.time_of_day = <<>> \/ ~TimeWellFormed(a.time_of_day[1])
                          THEN [h |-> 12, mi |-> 0]
                          ELSE a.time_of_day[1]
           sun_position == calculate_sun_position(sun_calculator, date, time_of_day)
       IN  IF ~sun_position.ok THEN Raise(t, "ValueError")
           ELSE Set(t, [pc |-> "nearest", date |-> <<date>>,
                        time_of_day |-> <<time_of_day>>,
                        sun_position |-> <<sun_position>>])
  /\ UNCHANGED <<graph, building_list, tree_list, ROUTING_PARAMS>>

\* lines 128-145
Parse(t) ==
  /\ frame[t].pc = "parse"
  /\ LET a == frame[t].args
           today == Today
           date_ok == a.date = <<>> \/ DateWellFormed(a.date[1])
           time_ok == a.time_of_day = <<>> \/ TimeWellFormed(a.time_of_day[1])
           date == IF a.date = <<>> THEN today ELSE a.date[1]
           time_of_day == IF a.time_of_day = <<>> THEN [h |-> 12, mi |-> 0]
                          ELSE a.time_of_day[1]
       IN  IF ~date_ok \/ ~time_ok THEN Raise(t, "InvalidInput")
           ELSE LET sun_position == calculate_sun_position(sun_calculator, date, time_of_day)
                IN  IF ~sun_position.ok THEN Raise(t, "ValueError")
                    ELSE Set(t, [pc |-> "nearest", date |-> <<date>>,
                                 time_of_day |-> <<time_of_day>>,
                                 sun_position |-> <<sun_position>>])
  /\ UNCHANGED <<graph, building_list, tree_list, ROUTING_PARAMS>>

\* lines 147-152, and 379-382 inside the loop
Nearest(t) ==
  /\ frame[t].pc = "nearest"
  /\ LET start_node == _find_nearest_node(graph, frame[t].args.start_point)
         end_node == _find_nearest_node(graph, frame[t].args.end_point)
         found == start_node # <<>> /\ end_node # <<>>
     IN  IF found
         THEN Set(t, [pc |-> IF graph.edges = <<>> THEN "search" ELSE "shade",
                      start_node |-> start_node, end_node |-> end_node, edge_i |-> 1])
         ELSE IF frame[t].alt_i >= 1
              THEN Set(t, [pc |-> "restore", start_node |-> start_node,
                           end_node |-> end_node])
              ELSE Set(t, [pc |-> "done", outcome |-> "NoNearbyNode",
                           start_node |-> start_node, end_node |-> end_node])
  /\ UNCHANGED <<graph, building_list, tree_list, ROUTING_PARAMS>>

\* one turn of the loop of lines 211-235
ShadeEdge(t) ==
  /\ frame[t].pc = "shade"
  /\ LET i == frame[t].edge_i
         edge == graph.edges[i]
         edge_data == graph.data[edge]
         shade_score == calculate_street_shade(edge_data.geometry, building_list,
                                               tree_list, frame[t].sun_position[1])
     IN  /\ graph' = [graph EXCEPT !.data[edge] =
                        EdgeAfterPass(edge_data, shade_score, ROUTING_PARAMS)]
         /\ Set(t, [edge_i |-> i + 1,
                    pc |-> IF i = Len(graph.edges) THEN "search" ELSE "shade"])
  /\ UNCHANGED <<building_list, tree_list, ROUTING_PARAMS>>

\* mutant: the search is run from the end node to the start node
SearchCombinedSwapped(t) ==
  /\ frame[t].pc = "search"
  /\ LET found == shortest_path(graph, frame[t].end_node[1], frame[t].start_node[1],
                                "combined_weight")
     IN  IF found = {} THEN Set(t, [pc |-> "fallback"])
         ELSE \E p \in found : Set(t, [pc |-> "metrics", path |-> p])
  /\ UNCHANGED <<graph, building_list, tree_list, ROUTING_PARAMS>>

\* mutant: the first search gives up on paths of more than one edge
SearchCombinedOneHop(t) ==
  /\ frame[t].pc = "search"
  /\ LET found == {p \in shortest_path(graph, frame[t].start_node[1],
                                       frame[t].end_node[1], "combined_weight") :
                    Len(p) <= 2}
     IN  IF found = {} THEN Set(t, [pc |-> "fallback"])
         ELSE \E p \in found : Set(t, [pc |-> "metrics", path |-> p])
  /\ UNCHANGED <<graph, building_list, tree_list, ROUTING_PARAMS>>

\* mutant: the first search is weighted by length
SearchCombinedByLength(t) ==
  /\ frame[t].pc = "search"
  /\ LET found == shortest_path(graph, frame[t].start_node[1], frame[t].end_node[1],
                                "length")
     IN  IF found = {} THEN Set(t, [pc |-> "fallback"])
         ELSE \E p \in found : Set(t, [pc |-> "metrics", path |-> p])
  /\ UNCHANGED <<graph, building_list, tree_list, ROUTING_PARAMS>>

\* lines 252-259
SearchCombined(t) ==
  /\ frame[t].pc = "search"
  /\ LET found == shortest_path(graph, frame[t].start_node[1], frame[t].end_node[1],
                                "combined_weight")
     IN  IF found = {} THEN Set(t, [pc |-> "fallback"])
         ELSE \E p \in found : Set(t, [pc |-> "metrics", path |-> p])
  /\ UNCHANGED <<graph, building_list, tree_list, ROUTING_PARAMS>>

\* mutant: when the length search finds no path either, the two nodes are
\* returned as a path of one hop
SearchLengthDirect(t) ==
  /\ frame[t].pc = "fallback"
  /\ Set(t, [pc |-> "metrics", used_fallback |-> TRUE,
             path |-> <<frame[t].start_node[1], frame[t].end_node[1]>>])
  /\ UNCHANGED <<graph, building_list, tree_list, ROUTING_PARAMS>>

\* lines 259-267: NetworkXNoPath raised here leaves _find_optimal_route
SearchLength(t) ==
  /\ frame[t].pc = "fallback"
  /\ LET found == shortest_path(graph, frame[t].start_node[1], frame[t].end_node[1],
                                "length")
     IN  IF found = {} THEN Raise(t, "NoPathFound")
         ELSE \E p \in found : Set(t, [pc |-> "metrics", path |-> p, used_fallback |-> TRUE])
  /\ UNCHANGED <<graph, building_list, tree_list, ROUTING_PARAMS>>

\* mutant: a route longer than the budget is refused
AssembleEnforced(t) ==
  /\ frame[t].pc = "metrics"
  /\ LET f == frame[t]
         budget == IF f.op = "find" THEN f.args.max_distance_km ELSE <<>>
         route_info == RouteInfo(graph, f.path)
         warned == ExceedsBudget(route_info.total_distance, budget)
         meta == Metadata(route_info, f.args.start_point, f.args.end_point,
                          f.date[1], f.time_of_day[1], f.sun_position[1])
     IN  IF warned THEN Raise(t, "BudgetExceeded")
         ELSE IF f.alt_i = 0
         THEN IF f.op = "find"
              THEN Set(t, [pc |-> "done", outcome |-> "ok", log_warning |-> warned,
                           result |-> <<meta @@ route_info>>])
              ELSE Set(t, [pc |-> "loop", log_warning |-> warned,
                           primary_route |-> <<meta @@ route_info>>,
                           alternatives |-> <<meta @@ route_info>>])
         ELSE LET tag == [weight_combination |-> Combos(t)[f.alt_i]]
              IN  Set(t, [pc |-> "restore",
                          alternatives |-> Append(f.alternatives, tag @@ meta @@ route_info)])
  /\ UNCHANGED <<graph, building_list, tree_list, ROUTING_PARAMS>>

\* mutant: every route of the loop is tagged with the first blend of the list
AssembleFirstTag(t) ==
  /\ frame[t].pc = "metrics"
  /\ LET f == frame[t]
         budget == IF f.op = "find" THEN f.args.max_distance_km ELSE <<>>
         route_info == RouteInfo(graph, f.path)
         warned == ExceedsBudget(route_info.total_distance, budget)
         meta == Metadata(route_info, f.args.start_point, f.args.end_point,
                          f.date[1], f.time_of_day[1], f.sun_position[1])
     IN  IF f.alt_i = 0
         THEN IF f.op = "find"
              THEN Set(t, [pc |-> "done", outcome |-> "ok", log_warning |-> warned,
                           result |-> <<meta @@ route_info>>])
              ELSE Set(t, [pc |-> "loop", log_warning |-> warned,
                           primary_route |-> <<meta @@ route_info>>,
                           alternatives |-> <<meta @@ route_info>>])
         ELSE LET tag == [weight_combination |-> weight_combinations[1]]
              IN  Set(t, [pc |-> "restore",
                          alternatives |-> Append(f.alternatives, tag @@ meta @@ route_info)])
  /\ UNCHANGED <<graph, building_list, tree_list, ROUTING_PARAMS>>

\* lines 269-303 and the metadata of lines 161-173 or 387-398; inside
\* get_route_alternatives the budget is None
Assemble(t) ==
  /\ frame[t].pc = "metrics"
  /\ LET f == frame[t]
         budget == IF f.op = "find" THEN f.args.max_distance_km ELSE <<>>
         route_info == RouteInfo(graph, f.path)
         warned == ExceedsBudget(route_info.total_distance, budget)
         meta == Metadata(route_info, f.args.start_point, f.args.end_point,
                          f.date[1], f.time_of_day[1], f.sun_position[1])
     IN  IF f.alt_i = 0
         THEN IF f.op = "find"
              THEN Set(t, [pc |-> "done", outcome |-> "ok", log_warning |-> warned,
                           result |-> <<meta @@ route_info>>])
              ELSE Set(t, [pc |-> "loop", log_warning |-> warned,
                           primary_route |-> <<meta @@ route_info>>,
                           alternatives |-> <<meta @@ route_info>>])
         ELSE LET tag == [weight_combination |-> Combos(t)[f.alt_i]]
              IN  Set(t, [pc |-> "restore",
                          alternatives |-> Append(f.alternatives, tag @@ meta @@ route_info)])
  /\ UNCHANGED <<graph, building_list, tree_list, ROUTING_PARAMS>>

\* lines 369-372: the next blend, or the end of the loop
LoopSave(t) ==
  /\ frame[t].pc = "loop"
  /\ IF frame[t].alt_i < Len(Combos(t))
     THEN Set(t, [pc |-> "override", alt_i |-> frame[t].alt_i + 1,
                  original |-> <<ROUTING_PARAMS>>])
     ELSE Set(t, [pc |-> "sort"])
  /\ UNCHANGED <<graph, building_list, tree_list, ROUTING_PARAMS>>

\* lines 374-375
Override(t) ==
  /\ frame[t].pc = "override"
  /\ LET blend == Combos(t)[frame[t].alt_i]
     IN  ROUTING_PARAMS' = [shade_weight |-> blend[1], time_weight |-> blend[2]]
  /\ Set(t, [pc |-> "nearest"])
  /\ UNCHANGED <<graph, building_list, tree_list>>

\* an exception in the try body of lines 377-398 that the code does not
\* raise itself (MemoryError, KeyboardInterrupt, ...)
Fault(t) ==
  /\ frame[t].pc \in {"nearest", "shade", "search", "fallback", "metrics"}
  /\ frame[t].alt_i >= 1
  /\ Raise(t, "Fault")
  /\ UNCHANGED <<graph, building_list, tree_list, ROUTING_PARAMS>>

\* mutant: the weights are put back at the end of the try body, not in a
\* finally block, so an exception skips the restore
RestoreSkippedOnError(t) ==
  /\ frame[t].pc = "restore"
  /\ IF frame[t].exc # "none"
     THEN /\ UNCHANGED ROUTING_PARAMS
          /\ Set(t, [pc |-> "done", outcome |-> frame[t].exc])
     ELSE /\ ROUTING_PARAMS' = frame[t].original[1]
          /\ Set(t, [pc |-> "loop"])
  /\ UNCHANGED <<graph, building_list, tree_list>>

\* lines 400-403, then the next turn or the exception on its way out (411-413)
Restore(t) ==
  /\ frame[t].pc = "restore"
  /\ ROUTING_PARAMS' = frame[t].original[1]
  /\ IF frame[t].exc # "none"
     THEN Set(t, [pc |-> "done", outcome |-> frame[t].exc])
     ELSE Set(t, [pc |-> "loop"])
  /\ UNCHANGED <<graph, building_list, tree_list>>

\* lines 405-409
SortReturn(t) ==
  /\ frame[t].pc = "sort"
  /\ Set(t, [pc |-> "done", outcome |-> "ok",
             result |-> SortAlternatives(frame[t].alternatives)])
  /\ UNCHANGED <<graph, building_list, tree_list, ROUTING_PARAMS>>

\* the caller takes the result or the exception; the thread is free again
Return(t) ==
  /\ frame[t].pc = "done"
  /\ frame' = [frame EXCEPT ![t] = IdleFrame]
  /\ UNCHANGED <<graph, building_list, tree_list, ROUTING_PARAMS>>

Step(t) ==
  \/ Parse(t) \/ Nearest(t) \/ ShadeEdge(t) \/ SearchCombined(t) \/ SearchLength(t)
  \/ Assemble(t) \/ LoopSave(t) \/ Override(t) \/ Fault(t) \/ Restore(t)
  \/ SortReturn(t)

\* one thread: any sequence of calls on the router
Next ==
  \/ CallFind(1, FindQueries)
  \/ CallAlternatives(1, AlternativesQueries)
  \/ Step(1)
  \/ Return(1)

Spec == Init /\ [][Next]_vars

\* two threads, one call each, on the router of the line; the steps of
\* the two calls interleave freely
ConcurrentFindQueries ==
  {[DefaultArgs EXCEPT !.start_point = 100, !.end_point = e, !.date = <<June21>>] :
     e \in {1150, 3600}}

ConcurrentAlternativesQueries ==
  {[DefaultArgs EXCEPT !.start_point = 100, !.end_point = 1150, !.date = <<June21>>,
                       !.num_alternatives = n] : n \in 2..3}

InitConcurrent == Construct(LineWorld)

NextConcurrent ==
  \E t \in Threads :
    \/ CallFind(t, ConcurrentFindQueries)
    \/ CallAlternatives(t, ConcurrentAlternativesQueries)
    \/ Step(t)

SpecConcurrent == InitConcurrent /\ [][NextConcurrent]_vars

-----------------------------------------------------------------------------
(* The shade pass as a function of its inputs                              *)

\* The shade pass by itself: _calculate_edge_shade_scores called once on a
\* router of one street, for any lists of sources, any sun position and any
\* non-negative weights in ROUTING_PARAMS
MaxSources == 2

SampleBuildings ==
  { [geometry |-> {<<0, 0>>, <<1, 0>>}, height |-> 30, is_valid |-> TRUE],
    [geometry |-> {<<0, 0>>, <<0, -1>>}, height |-> 60, is_valid |-> TRUE],
    [geometry |-> {<<1, -1>>}, height |-> 0, is_valid |-> TRUE],
    [geometry |-> {<<1, 0>>}, height |-> -30, is_valid |-> TRUE],
    [geometry |-> {<<0, 0>>}, height |-> 30, is_valid |-> TRUE, error |-> "intersects"],
    [geometry |-> {<<0, -1>>}, height |-> 30, is_valid |-> TRUE, error |-> "projection"],
    [geometry |-> {<<1, 0>>}, height |-> 30, is_valid |-> TRUE, error |-> "intersection"] }

SampleTrees ==
  { [geometry |-> <<1, -1>>, diameter |-> 20, is_valid |-> TRUE],
    [geometry |-> <<0, 0>>, diameter |-> 20, is_valid |-> TRUE, error |-> "intersects"] }

\* the sequences over S of length at most n
ListsOver(S, n) == UNION {[1..k -> S] : k \in 0..n}

\* sun positions at night, on the horizon and by day
SampleSuns ==
  { [ok |-> TRUE, elevation |-> el[1], azimuth |-> el[2], declination |-> 23,
     hour_angle |-> 0] : el \in {<<-4, 0>>, <<0, 90>>, <<26, 279>>, <<72, 180>>} }

SampleBlends == {<<0, 0>>, <<10, 0>>, <<0, 10>>, <<6, 4>>}

ScorerInit ==
  \E bs \in ListsOver(SampleBuildings, MaxSources), ts \in ListsOver(SampleTrees, 1),
     x \in {0, 5}, len \in {0, 500}, sun \in SampleSuns, w \in SampleBlends :
    /\ graph = _create_routing_graph(<<Street(<<0, 500>>, len, x)>>)
    /\ building_list = bs
    /\ tree_list = ts
    /\ ROUTING_PARAMS = [shade_weight |-> w[1], time_weight |-> w[2]]
    /\ frame = [t \in Threads |->
                  IF t = 1
                  THEN [IdleFrame EXCEPT !.pc = "shade", !.op = "pass",
                                         !.sun_position = <<sun>>, !.edge_i = 1]
                  ELSE IdleFrame]

ScorerNext == ShadeEdge(1)

SpecScorer == ScorerInit /\ [][ScorerNext]_vars

-----------------------------------------------------------------------------
(* The construction of a router as a function of its street network        *)

MaxRows == 3

\* streets between 0, 500 and 1100: two of the same end points, a closed one,
\* one without length_m, and rows the graph leaves out
SampleRows ==
  { Street(<<0, 500>>, 500, 0),
    Street(<<500, 250, 0>>, 800, 10),
    Street(<<500, 1100>>, 600, 20),
    Street(<<0, 300, 0>>, 600, 30),
    [coords |-> <<1100, 0>>, is_valid |-> TRUE, is_empty |-> FALSE, buffer |-> Block(40)],
    [Street(<<0, 1100>>, 900, 50) EXCEPT !.is_valid = FALSE],
    [coords |-> <<>>, length_m |-> 0, is_valid |-> TRUE, is_empty |-> TRUE, buffer |-> {}],
    Street(<<700>>, 50, 60) }

GraphInit ==
  \E sn \in ListsOver(SampleRows, MaxRows) :
    /\ graph = EmptyGraph
    /\ building_list = <<>>
    /\ tree_list = <<>>
    /\ ROUTING_PARAMS = ConfiguredParams
    /\ frame = [t \in Threads |->
                  IF t = 1
                  THEN [IdleFrame EXCEPT !.pc = "create", !.op = "construct",
                                         !.args = [street_network |-> sn,
                                                   buildings |-> DiamondBuildings,
                                                   trees |-> DiamondTrees]]
                  ELSE IdleFrame]

\* line 44
CreateGraph(t) ==
  /\ frame[t].pc = "create"
  /\ graph' = _create_routing_graph(frame[t].args.street_network)
  /\ Set(t, [pc |-> "preprocess"])
  /\ UNCHANGED <<building_list, tree_list, ROUTING_PARAMS>>

\* line 47
Preprocess(t) ==
  /\ frame[t].pc = "preprocess"
  /\ building_list' = _preprocess_shade_data(frame[t].args.buildings)
  /\ tree_list' = _preprocess_shade_data(frame[t].args.trees)
  /\ Set(t, [pc |-> "constructed"])
  /\ UNCHANGED <<graph, ROUTING_PARAMS>>

GraphNext == CreateGraph(1) \/ Preprocess(1)

SpecGraph == GraphInit /\ [][GraphNext]_vars

-----------------------------------------------------------------------------
(* calculate_sun_position as a function of the calculator, date and time   *)

SampleLatitudes == {-34, 0, 41, 66}
SampleLongitudes == {-74, 0, 139}
SampleDates ==
  {June21, December21, [y |-> 2024, m |-> 2, d |-> 29], [y |-> 2025, m |-> 3, d |-> 20]}
SampleTimes ==
  {[h |-> 0, mi |-> 0], [h |-> 6, mi |-> 30], [h |-> 12, mi |-> 0],
   [h |-> 18, mi |-> 59], [h |-> 19, mi |-> 0], [h |-> 23, mi |-> 59]}

\* two calculators of one latitude and one call on each, for the same date and time
SunInit ==
  \E lat \in SampleLatitudes, lons \in [Threads -> SampleLongitudes],
     d \in SampleDates, tm \in SampleTimes :
    /\ graph = EmptyGraph
    /\ building_list = <<>>
    /\ tree_list = <<>>
    /\ ROUTING_PARAMS = ConfiguredParams
    /\ frame = [t \in Threads |->
                  [IdleFrame EXCEPT !.pc = "sun", !.op = "sun",
                                    !.args = [calculator |-> SunCalculator(lat, lons[t]),
                                              date |-> d, time_of_day |-> tm]]]

\* lines 47-75
SunPosition(t) ==
  /\ frame[t].pc = "sun"
  /\ LET a == frame[t].args
         sun_position == calculate_sun_position(a.calculator, a.date, a.time_of_day)
     IN  IF sun_position.ok
         THEN Set(t, [pc |-> "done", outcome |-> "ok", sun_position |-> <<sun_position>>])
         ELSE Set(t, [pc |-> "done", outcome |-> sun_position.error])
  /\ UNCHANGED <<graph, building_list, tree_list, ROUTING_PARAMS>>

SunNext == \E t \in Threads : SunPosition(t)

SpecSun == SunInit /\ [][SunNext]_vars

-----------------------------------------------------------------------------
(* Properties                                                              *)

InTry(t) == frame[t].alt_i >= 1

\* the formula of section 4.4 for an edge's attribute dict under a blend
WeightFormula(d, params) ==
  params.time_weight * d.length * ScoreOne
  + params.shade_weight * (ScoreOne - d.shade_score) * d.length

\* C1: whenever a shortest-path search is about to run (the combined_weight
\* search or the length search after it), every edge of the graph carries the
\* scorer's output for the sun position of the query in progress and the
\* combined weight of that score, its length and the blend then in ROUTING_PARAMS.
C1_FreshAtSearch ==
  \A t \in Threads :
    frame[t].pc \in {"search", "fallback"} =>
      \A e \in DOMAIN graph.data :
        LET d == graph.data[e]
        IN  /\ {"shade_score", "combined_weight"} \subseteq DOMAIN d
            /\ d.shade_score = calculate_street_shade(d.geometry, building_list, tree_list,
                                                      frame[t].sun_position[1])
            /\ d.combined_weight = WeightFormula(d, ROUTING_PARAMS)

\* a search of the third blend, (0.2, 0.8), starts with the sun up: the edges
\* were last written under (0.8, 0.2), and before that by the primary query
C1_Witness ==
  /\ frame[1].pc = "search"
  /\ frame[1].alt_i = 2
  /\ frame[1].sun_position[1].elevation > 0
  /\ ROUTING_PARAMS = [shade_weight |-> 2, time_weight |-> 8]

\* no node of G lies within the limit of the point
NoNodeNear(G, point) ==
  \A n \in SeqToSet(G.nodes) : _haversine_distance(point, n) > NearLimit

LacksNode(t) ==
  \/ NoNodeNear(graph, frame[t].args.start_point)
  \/ NoNodeNear(graph, frame[t].args.end_point)

\* C2: a find_shadiest_route query (also the primary query of
\* get_route_alternatives) one of whose end points has no node within the
\* limit never writes an edge, never reaches the shade pass, a search or the
\* route assembly, and ends in a failure; once the date and time are accepted
\* and the sun position is computed, that failure is NoNearbyNode.
C2_NoSearchWithoutNode ==
  [][\A t \in Threads :
       (frame[t].pc # "idle" /\ frame[t].alt_i = 0 /\ LacksNode(t)) =>
         /\ graph' = graph
         /\ frame'[t].pc \in {"idle", "parse", "nearest", "done"}
         /\ frame'[t].pc = "done" =>
              frame'[t].outcome \in {"InvalidInput", "ValueError", "NoNearbyNode"}
         /\ frame[t].pc = "nearest" =>
              (frame'[t].pc = "done" /\ frame'[t].outcome = "NoNearbyNode")]_vars

\* the start point is 1100 m from the nearest node: the query has failed
C2_Witness ==
  /\ frame[1].pc = "done"
  /\ frame[1].op = "find"
  /\ frame[1].outcome = "NoNearbyNode"
  /\ NoNodeNear(graph, frame[1].args.start_point)
  /\ ~NoNodeNear(graph, frame[1].args.end_point)

\* the nearest-node lookups of thread t have run and their results are in the frame
NearestRan(t) ==
  \/ frame[t].pc \in {"shade", "search", "fallback", "metrics"}
  \/ frame[t].pc = "done" /\ frame[t].outcome = "NoNearbyNode"

\* what the claim asks of the lookup's result r for a point
NearestWithinLimit(G, point, r) ==
  IF \E n \in SeqToSet(G.nodes) : _haversine_distance(point, n) <= NearLimit
  THEN /\ r # <<>>
       /\ \A n \in SeqToSet(G.nodes) :
            _haversine_distance(point, r[1]) <= _haversine_distance(point, n)
  ELSE r = <<>>

\* C3: the lookup returns a node at least distance from the point when that
\* distance is at most 1000 m (1000 m included) and None otherwise.
C3_NearestIncludesLimit ==
  \A t \in Threads :
    NearestRan(t) =>
      /\ NearestWithinLimit(graph, frame[t].args.start_point, frame[t].start_node)
      /\ NearestWithinLimit(graph, frame[t].args.end_point, frame[t].end_node)

\* the nodes joined to a node of S by some chain of edges
RECURSIVE ReachFrom(_, _)
ReachFrom(G, S) ==
  LET N == S \cup {m \in SeqToSet(G.nodes) : \E n \in S : {n, m} \in DOMAIN G.data}
  IN  IF N = S THEN S ELSE ReachFrom(G, N)

Connected(G, a, b) == b \in ReachFrom(G, {a})

\* the routes thread t holds: its result and the alternatives gathered so far
RoutesOf(t) == SeqToSet(frame[t].result) \cup SeqToSet(frame[t].alternatives)

Joined(G, path) ==
  \A i \in 1..(Len(path) - 1) : {path[i], path[i + 1]} \in DOMAIN G.data

\* C4: with the two nodes in different components the combined_weight search
\* is followed by the length search and that by the NoPathFound failure of the
\* query; and no route ever held has two consecutive nodes without an edge.
C4_DisconnectedFails ==
  /\ [](\A t \in Threads : \A r \in RoutesOf(t) : Joined(graph, r.path))
  /\ [][\A t \in Threads :
          ( /\ frame[t].pc \in {"search", "fallback"}
            /\ ~InTry(t)
            /\ ~Connected(graph, frame[t].start_node[1], frame[t].end_node[1]) ) =>
            /\ frame[t].pc = "search" => frame'[t].pc = "fallback"
            /\ frame[t].pc = "fallback" =>
                 (frame'[t].pc = "done" /\ frame'[t].outcome = "NoPathFound")]_vars

\* both searches have failed between node 0 and the separate component
C4_Witness ==
  /\ frame[1].pc = "done"
  /\ frame[1].outcome = "NoPathFound"
  /\ frame[1].start_node = <<0>>
  /\ frame[1].end_node = <<3500>>

\* C5: when the graph holds exactly one simple path between the two nearest
\* nodes, every route the call holds (the result of find_shadiest_route, the
\* primary route and every alternative of get_route_alternatives) is that path.
C5_UniquePath ==
  \A t \in Threads :
    \A r \in RoutesOf(t) :
      LET all == SimplePaths(graph, frame[t].start_node[1], frame[t].end_node[1])
      IN  Cardinality(all) = 1 =>
            /\ all = {r.path}
            /\ r.path[1] = frame[t].start_node[1]
            /\ r.path[Len(r.path)] = frame[t].end_node[1]

\* the primary route and three alternatives along the line 0 - 500 - 1100, sun up
C5_Witness ==
  /\ frame[1].pc = "done"
  /\ frame[1].op = "alternatives"
  /\ frame[1].outcome = "ok"
  /\ Len(frame[1].result) = 4
  /\ frame[1].sun_position[1].elevation > 0
  /\ \A i \in 1..4 : frame[1].result[i].path = <<0, 500, 1100>>

KeySame(a, b) ==
  /\ ~FloatLess(a.average_shade_score, b.average_shade_score)
  /\ ~FloatLess(b.average_shade_score, a.average_shade_score)

\* C6: the list get_route_alternatives returns holds exactly the candidates
\* generated (the primary route, then one route per blend of the loop, in
\* blend order), no later element has a greater average_shade_score than an
\* earlier one, and elements of equal score are in the order of generation.
C6_StablePermutation ==
  \A t \in Threads :
    (frame[t].pc = "done" /\ frame[t].op = "alternatives" /\ frame[t].outcome = "ok") =>
      LET gen == frame[t].alternatives
          res == frame[t].result
          Pos(r) == CHOOSE i \in 1..Len(gen) : gen[i] = r
      IN  /\ Len(gen) = 1 + Len(Combos(t))
          /\ gen[1] = frame[t].primary_route[1]
          /\ \A k \in 1..Len(Combos(t)) : gen[k + 1].weight_combination = Combos(t)[k]
          /\ Len(res) = Len(gen)
          /\ SeqToSet(res) = SeqToSet(gen)
          /\ \A i, j \in 1..Len(res) :
               i < j =>
                 /\ ~FloatLess(res[i].average_shade_score, res[j].average_shade_score)
                 /\ KeySame(res[i], res[j]) => Pos(res[i]) < Pos(res[j])

\* four candidates, the third of a smaller score than the fourth: the list
\* returned is not in the order of generation, and it holds equal scores
C6_Witness ==
  /\ frame[1].pc = "done"
  /\ frame[1].op = "alternatives"
  /\ frame[1].outcome = "ok"
  /\ Len(frame[1].result) = 4
  /\ frame[1].result # frame[1].alternatives
  /\ KeySame(frame[1].result[1], frame[1].result[2])
  /\ FloatLess(frame[1].result[4].average_shade_score,
               frame[1].result[3].average_shade_score)

\* the blend of thread t's current turn of the loop is in ROUTING_PARAMS
Overridden(t) ==
  /\ frame[t].alt_i >= 1
  /\ frame[t].pc \in {"nearest", "shade", "search", "fallback", "metrics", "restore"}

\* C7: with one thread, ROUTING_PARAMS differs from the configured blend only
\* between the override and the restore of a turn of the loop: it holds the
\* configured values when a call starts, when get_route_alternatives returns
\* its list or raises, and all through a following find_shadiest_route.
C7_ParamsRestored ==
  ~Overridden(1) => ROUTING_PARAMS = ConfiguredParams

\* an exception in the second turn of the loop, under the blend (0.2, 0.8), has
\* ended get_route_alternatives
C7_Witness ==
  /\ frame[1].pc = "done"
  /\ frame[1].op = "alternatives"
  /\ frame[1].outcome = "Fault"
  /\ frame[1].alt_i = 2
  /\ Combos(1)[2] = <<2, 8>>
  /\ Len(frame[1].alternatives) = 2

\* C8: once two concurrent get_route_alternatives calls have both finished
\* (here: both have returned their lists, none has raised), ROUTING_PARAMS
\* holds the values it had before either started.
C8_NoLeakBetweenThreads ==
  (\A t \in Threads :
     frame[t].pc = "done" /\ frame[t].op = "alternatives" /\ frame[t].outcome = "ok") =>
    ROUTING_PARAMS = ConfiguredParams

\* the shade pass of lines 206-241 as a whole
ShadePass(G, sun_position, params) ==
  [G EXCEPT !.data =
     [e \in DOMAIN G.data |->
        EdgeAfterPass(G.data[e],
                      calculate_street_shade(G.data[e].geometry, building_list,
                                             tree_list, sun_position),
                      params)]]

\* find_shadiest_route as a whole (lines 106-177) for the arguments a, less
\* the budget: the set of its possible outcomes and results
find_shadiest_route(G, a, params) ==
  LET failure(err) == {[outcome |-> err, result |-> <<>>]}
      date_ok == a.date = <<>> \/ DateWellFormed(a.date[1])
      time_ok == a.time_of_day = <<>> \/ TimeWellFormed(a.time_of_day[1])
      date == IF a.date = <<>> THEN Today ELSE a.date[1]
      time_of_day == IF a.time_of_day = <<>> THEN [h |-> 12, mi |-> 0]
                     ELSE a.time_of_day[1]
      sun_position == calculate_sun_position(sun_calculator, date, time_of_day)
      start_node == _find_nearest_node(G, a.start_point)
      end_node == _find_nearest_node(G, a.end_point)
      G2 == ShadePass(G, sun_position, params)
      found == shortest_path(G2, start_node[1], end_node[1], "combined_weight")
      fallback == shortest_path(G2, start_node[1], end_node[1], "length")
      route(p) == LET route_info == RouteInfo(G2, p)
                  IN  [outcome |-> "ok",
                       result |-> << Metadata(route_info, a.start_point, a.end_point,
                                              date, time_of_day, sun_position)
                                     @@ route_info >>]
  IN  IF ~date_ok \/ ~time_ok THEN failure("InvalidInput")
      ELSE IF ~sun_position.ok THEN failure("ValueError")
      ELSE IF start_node = <<>> \/ end_node = <<>> THEN failure("NoNearbyNode")
      ELSE IF found # {} THEN {route(p) : p \in found}
      ELSE IF fallback # {} THEN {route(p) : p \in fallback}
      ELSE failure("NoPathFound")

\* what the call of thread t gives when max_distance_km is left out
WithoutBudget(t) ==
  find_shadiest_route(graph, [frame[t].args EXCEPT !.max_distance_km = <<>>],
                      ROUTING_PARAMS)

\* C9: whatever max_distance_km is, a finished find_shadiest_route has the
\* outcome and the result (path, total_distance, edges and the rest) of the
\* same query without max_distance_km, also when the route is over the budget.
C9_BudgetChangesNothing ==
  \A t \in Threads :
    (frame[t].pc = "done" /\ frame[t].op = "find") =>
      [outcome |-> frame[t].outcome, result |-> frame[t].result] \in WithoutBudget(t)

\* a route of more than 1 km returned under a budget of 1 km
C9_Witness ==
  /\ frame[1].pc = "done"
  /\ frame[1].op = "find"
  /\ frame[1].outcome = "ok"
  /\ frame[1].args.max_distance_km = <<1>>
  /\ frame[1].result[1].total_distance > KmMetres
  /\ frame[1].log_warning

\* C10: the result of a find_shadiest_route whose route is over the budget
\* shows it: it has a warning entry, or at least differs in some entry from
\* the result of the same query without max_distance_km.
C10_WarningInResult ==
  \A t \in Threads :
    ( /\ frame[t].pc = "done"
      /\ frame[t].op = "find"
      /\ frame[t].outcome = "ok"
      /\ ExceedsBudget(frame[t].result[1].total_distance, frame[t].args.max_distance_km) ) =>
      \/ "warning" \in DOMAIN frame[t].result[1]
      \/ [outcome |-> "ok", result |-> frame[t].result] \notin WithoutBudget(t)

\* the shade pass of thread t has handled every edge
PassDone(t) == frame[t].op = "pass" /\ frame[t].pc = "search"

\* C11: with the sun at or below the horizon every edge gets shade_score 1.0
\* from the scorer, whatever the buildings and trees are, also when one of
\* them would raise or has no usable height.
C11_NightFullShade ==
  \A t \in Threads :
    (PassDone(t) /\ frame[t].sun_position[1].elevation <= 0) =>
      \A e \in DOMAIN graph.data : graph.data[e].shade_score = ScoreOne

\* the sun exactly on the horizon, a building whose intersection test raises
\* and a building of height 0 in the list
C11_Witness ==
  /\ PassDone(1)
  /\ frame[1].sun_position[1].elevation = 0
  /\ \E i, j \in 1..Len(building_list) :
       /\ GeometryError(building_list[i]) = "intersects"
       /\ building_list[j].height = 0
  /\ \A e \in DOMAIN graph.data : graph.data[e].shade_score = ScoreOne

\* C12: every shade_score an edge carries lies in [0.0, 1.0].
C12_ScoreInUnitInterval ==
  \A e \in DOMAIN graph.data :
    "shade_score" \in DOMAIN graph.data[e] =>
      /\ graph.data[e].shade_score >= 0
      /\ graph.data[e].shade_score <= ScoreOne

\* overlapping sources whose summed shadow areas exceed the area of the
\* segment's buffer: the score is 1.0
C12_Witness ==
  /\ PassDone(1)
  /\ frame[1].sun_position[1].elevation > 0
  /\ \E e \in DOMAIN graph.data :
       LET d == graph.data[e]
       IN  /\ ~LoopRaises(building_list, tree_list, d.geometry, frame[1].sun_position[1])
           /\ BuildingShade(building_list, d.geometry, frame[1].sun_position[1])
              + TreeShade(tree_list, d.geometry, frame[1].sun_position[1])
                > Cardinality(d.geometry)
           /\ d.shade_score = ScoreOne

\* the date string names no day of the calendar (2024-02-30), or the time
\* string no time of the day (24:00)
Malformed(a) ==
  \/ a.date = <<[y |-> 2024, m |-> 2, d |-> 30]>>
  \/ a.time_of_day = <<[h |-> 24, mi |-> 0]>>

\* C13: the first step of a query with a malformed date or time string ends
\* it with the InvalidInput failure: no sun position has been computed, no
\* nearest-node lookup made, and the graph is as it was before the call.
C13_MalformedFailsFirst ==
  [][\A t \in Threads :
       (frame[t].pc = "parse" /\ Malformed(frame[t].args)) =>
         /\ frame'[t].pc = "done"
         /\ frame'[t].outcome = "InvalidInput"
         /\ frame'[t].sun_position = <<>>
         /\ frame'[t].start_node = <<>>
         /\ frame'[t].end_node = <<>>
         /\ graph' = graph]_vars

\* a well-formed date with the time 24:00, after an earlier query has written
\* the edges
C13_Witness ==
  /\ frame[1].pc = "done"
  /\ frame[1].outcome = "InvalidInput"
  /\ frame[1].args.date = <<June21>>
  /\ frame[1].args.time_of_day = <<[h |-> 24, mi |-> 0]>>
  /\ frame[1].sun_position = <<>>
  /\ \A e \in DOMAIN graph.data : "shade_score" \in DOMAIN graph.data[e]

\* the attribute dict of the graph edge under the i-th hop of a path
Hop(p, i) == graph.data[{p[i], p[i + 1]}]

\* C14: in every route held, edge i runs from path[i] to path[i+1] with the
\* length and the shade_score of that graph edge, the path runs from the start
\* node to the end node, num_segments is len(path) - 1, total_distance is the
\* sum of the lengths of the hops, and average_shade_score is the sum of the
\* hops' shade scores over their number.
C14_RouteFollowsPath ==
  \A t \in Threads :
    \A r \in RoutesOf(t) :
      LET p == r.path
          n == Len(p) - 1
      IN  /\ p[1] = frame[t].start_node[1]
          /\ p[Len(p)] = frame[t].end_node[1]
          /\ Len(r.edges) = n
          /\ r.num_segments = n
          /\ \A i \in 1..n :
               /\ r.edges[i].start = p[i]
               /\ r.edges[i].end = p[i + 1]
               /\ r.edges[i].distance_m = Hop(p, i).length
               /\ r.edges[i].shade_score = Hop(p, i).shade_score
               /\ r.edges[i].geometry = Hop(p, i).geometry
          /\ r.total_distance = SeqSum([i \in 1..n |-> Hop(p, i).length])
          /\ r.average_shade_score =
               [num |-> SeqSum([i \in 1..n |-> Hop(p, i).shade_score]), den |-> n]

\* the mean of the shade scores of all edges of the graph
MeanOfGraph ==
  [num |-> SeqSum([i \in 1..Len(graph.edges) |-> graph.data[graph.edges[i]].shade_score]),
   den |-> Len(graph.edges)]

\* a route of two hops by day whose mean differs from the mean of all edges
C14_Witness ==
  /\ frame[1].pc = "done"
  /\ frame[1].op = "find"
  /\ frame[1].outcome = "ok"
  /\ frame[1].sun_position[1].elevation > 0
  /\ LET r == frame[1].result[1]
     IN  /\ Len(r.path) = 3
         /\ r.average_shade_score.num > 0
         /\ FloatLess(MeanOfGraph, r.average_shade_score)

\* C15 as stated: combined_weight is never negative, it is 0 only for an edge
\* of length 0 or an edge of shade_score 1 under a dominating shade weight
\* (read at its widest: a shade weight not below the time weight), and an
\* edge of positive length and shade_score below 1 never has it 0.
C15_ZeroOnlyFullShade ==
  \A t \in Threads :
    PassDone(t) =>
      \A e \in DOMAIN graph.data :
        LET d == graph.data[e]
        IN  /\ d.combined_weight >= 0
            /\ d.combined_weight = 0 =>
                 \/ d.length = 0
                 \/ /\ d.shade_score = ScoreOne
                    /\ ROUTING_PARAMS.shade_weight >= ROUTING_PARAMS.time_weight
            /\ (d.length > 0 /\ d.shade_score < ScoreOne) => d.combined_weight # 0

\* C15 amended: combined_weight is never negative, and it is 0 exactly when
\* the length is 0, or time_weight is 0 and either shade_score is 1 or
\* shade_weight is 0 too.
C15_ZeroExactly ==
  \A t \in Threads :
    PassDone(t) =>
      \A e \in DOMAIN graph.data :
        LET d == graph.data[e]
        IN  /\ d.combined_weight >= 0
            /\ d.combined_weight = 0 <=>
                 \/ d.length = 0
                 \/ /\ ROUTING_PARAMS.time_weight = 0
                    /\ d.shade_score = ScoreOne \/ ROUTING_PARAMS.shade_weight = 0

\* a fully shaded street of 500 m by day under the blend (1.0, 0.0) has weight 0
C15_Witness ==
  /\ PassDone(1)
  /\ frame[1].sun_position[1].elevation > 0
  /\ ROUTING_PARAMS = [shade_weight |-> 10, time_weight |-> 0]
  /\ \E e \in DOMAIN graph.data :
       /\ graph.data[e].length = 500
       /\ graph.data[e].shade_score = ScoreOne
       /\ graph.data[e].combined_weight = 0

\* a router has been constructed by thread t over frame[t].args.street_network
Constructed(t) == frame[t].op = "construct" /\ frame[t].pc \in {"preprocess", "constructed"}

\* the segment has a valid, non-empty geometry of at least two coordinates
Usable(row) == row.is_valid /\ ~row.is_empty /\ Len(row.coords) >= 2

First(row) == row.coords[1]
Last(row) == row.coords[Len(row.coords)]

\* C16: the nodes of the graph are exactly the first and last coordinates of
\* the usable segments, each once; every edge joins the two ends of a usable
\* segment; and two usable segments with a common end are joined there, so
\* that their other ends are connected.
C16_GraphOfUsableSegments ==
  \A t \in Threads :
    Constructed(t) =>
      LET sn == frame[t].args.street_network
          usable == {i \in 1..Len(sn) : Usable(sn[i])}
      IN  /\ SeqToSet(graph.nodes) = UNION {{First(sn[i]), Last(sn[i])} : i \in usable}
          /\ Cardinality(SeqToSet(graph.nodes)) = Len(graph.nodes)
          /\ DOMAIN graph.data = {{First(sn[i]), Last(sn[i])} : i \in usable}
          /\ SeqToSet(graph.edges) = DOMAIN graph.data
          /\ \A i, j \in usable :
               \A a \in {First(sn[i]), Last(sn[i])}, b \in {First(sn[j]), Last(sn[j])} :
                 {First(sn[i]), Last(sn[i])} \cap {First(sn[j]), Last(sn[j])} # {} =>
                   Connected(graph, a, b)

\* the streets 0 - 500 and 500 - 1100 with an invalid row between them: the
\* nodes are 0, 500 and 1100, and no edge joins 0 and 1100
C16_Witness ==
  /\ Constructed(1)
  /\ LET sn == frame[1].args.street_network
     IN  /\ Len(sn) = 3
         /\ ~sn[2].is_valid
         /\ Usable(sn[1]) /\ Usable(sn[3])
  /\ SeqToSet(graph.nodes) = {0, 500, 1100}
  /\ DOMAIN graph.data = {{0, 500}, {500, 1100}}

\* C17: every usable segment has an edge between its two ends that carries
\* the segment's geometry and its length, also when another segment has the
\* same two ends and when its two ends are one point.
C17_EdgePerSegment ==
  \A t \in Threads :
    Constructed(t) =>
      LET sn == frame[t].args.street_network
      IN  \A i \in 1..Len(sn) :
            Usable(sn[i]) =>
              LET key == {First(sn[i]), Last(sn[i])}
              IN  /\ key \in DOMAIN graph.data
                  /\ graph.data[key].geometry = sn[i].buffer
                  /\ "length_m" \in DOMAIN sn[i] => graph.data[key].length = sn[i].length_m

\* the list without its i-th element
Without(seq, i) == SubSeq(seq, 1, i - 1) \o SubSeq(seq, i + 1, Len(seq))

\* no source of the pass raises
NoGeometryError ==
  /\ \A i \in 1..Len(building_list) : GeometryError(building_list[i]) = "none"
  /\ \A i \in 1..Len(tree_list) : GeometryError(tree_list[i]) = "none"

\* C18: by day, a building whose height is zero or negative does not count:
\* every edge has the shade_score it has with that building taken out of the
\* list (stated for passes in which no source raises).
C18_UnusableHeightIgnored ==
  \A t \in Threads :
    (PassDone(t) /\ frame[t].sun_position[1].elevation > 0 /\ NoGeometryError) =>
      \A e \in DOMAIN graph.data :
        \A i \in 1..Len(building_list) :
          building_list[i].height <= 0 =>
            graph.data[e].shade_score =
              calculate_street_shade(graph.data[e].geometry, Without(building_list, i),
                                     tree_list, frame[t].sun_position[1])

\* the sources of a list for which shapely raises at no step
RECURSIVE Sound(_)
Sound(sources) ==
  IF sources = <<>> THEN <<>>
  ELSE IF GeometryError(Head(sources)) = "none"
       THEN <<Head(sources)>> \o Sound(Tail(sources))
       ELSE Sound(Tail(sources))

\* C19: by day, a source for whose geometry an error is raised is skipped and
\* nothing else: every edge has the shade_score computed from the other
\* sources (stated for lists whose buildings all have a positive height).
C19_ErrorSkipsSource ==
  \A t \in Threads :
    ( /\ PassDone(t)
      /\ frame[t].sun_position[1].elevation > 0
      /\ \A i \in 1..Len(building_list) : building_list[i].height > 0 ) =>
      \A e \in DOMAIN graph.data :
        graph.data[e].shade_score =
          calculate_street_shade(graph.data[e].geometry, Sound(building_list),
                                 Sound(tree_list), frame[t].sun_position[1])

\* C20: at local noon the sun position computed for 2024-06-21 has an
\* elevation above 70 degrees and the one for 2024-12-21 an elevation below 30
\* degrees, the hour angle being 15 * (17 - 12) for the UTC hour 17.
C20_SolsticeNoon ==
  \A t \in Threads :
    (frame[t].sun_position # <<>> /\ frame[t].time_of_day = <<[h |-> 12, mi |-> 0]>>) =>
      /\ frame[t].sun_position[1].hour_angle = 15 * (17 - 12)
      /\ frame[t].date = <<June21>> => frame[t].sun_position[1].elevation > 70
      /\ frame[t].date = <<December21>> => frame[t].sun_position[1].elevation < 30

\* C21: two calculators that differ in nothing but the longitude give the
\* same elevation, azimuth, declination and hour angle (or fail alike) for the
\* same date and time.
C21_LongitudeIgnored ==
  (\A t \in Threads : frame[t].op = "sun" /\ frame[t].pc = "done") =>
    /\ frame[1].outcome = frame[2].outcome
    /\ frame[1].sun_position = frame[2].sun_position

\* New York and Tokyo longitudes, the same latitude, by day
C21_Witness ==
  /\ \A t \in Threads : frame[t].op = "sun" /\ frame[t].pc = "done" /\ frame[t].outcome = "ok"
  /\ frame[1].args.calculator.longitude = -74
  /\ frame[2].args.calculator.longitude = 139
  /\ frame[1].args.calculator.latitude = frame[2].args.calculator.latitude
  /\ frame[1].sun_position[1].elevation > 0

\* building b has a positive height, meets the buffer, and the polygon
\* calculate_shade_projection gives for it contains the whole buffer
Covering(b, street_buffer, sun_position) ==
  /\ b.height > 0
  /\ b.geometry \cap street_buffer # {}
  /\ street_buffer \subseteq calculate_shade_projection(b.geometry, b.height, sun_position)

\* C22: by day, an edge whose buffer lies wholly inside the shadow polygon of
\* one building of positive height that meets it has shade_score 1.0 (stated
\* for passes in which no source raises).
C22_CoveredSegmentFullShade ==
  \A t \in Threads :
    (PassDone(t) /\ frame[t].sun_position[1].elevation > 0 /\ NoGeometryError) =>
      \A e \in DOMAIN graph.data :
        (\E i \in 1..Len(building_list) :
           Covering(building_list[i], graph.data[e].geometry, frame[t].sun_position[1])) =>
          graph.data[e].shade_score = ScoreOne

\* one building and nothing else; its footprint is half of the buffer and
\* its translated shadow the other half
C22_Witness ==
  /\ PassDone(1)
  /\ frame[1].sun_position[1].elevation > 0
  /\ Len(building_list) = 1
  /\ tree_list = <<>>
  /\ \E e \in DOMAIN graph.data :
       /\ Covering(building_list[1], graph.data[e].geometry, frame[1].sun_position[1])
       /\ 2 * Cardinality(building_list[1].geometry \cap graph.data[e].geometry)
            = Cardinality(graph.data[e].geometry)
       /\ graph.data[e].shade_score = ScoreOne

\* a finished get_route_alternatives that returned its list
AlternativesDone(t) ==
  frame[t].op = "alternatives" /\ frame[t].pc = "done" /\ frame[t].outcome = "ok"

Tagged(route) == "weight_combination" \in DOMAIN route

Untagged(route) == [k \in DOMAIN route \ {"weight_combination"} |-> route[k]]

\* the routes find_shadiest_route can give for the call of thread t under blend
RoutesUnder(t, blend) ==
  {o.result[1] :
     o \in {x \in find_shadiest_route(graph,
                    [frame[t].args EXCEPT !.max_distance_km = <<>>],
                    [shade_weight |-> blend[1], time_weight |-> blend[2]]) :
              x.outcome = "ok"}}

C24_CountMatches ==
  \A t \in Threads :
    AlternativesDone(t) =>
      LET n == frame[t].args.num_alternatives
          result == frame[t].result
      IN  /\ Len(result) <= n
          /\ n \in 1..4 =>
               /\ Len(result) = n
               /\ {r.weight_combination : r \in {x \in SeqToSet(result) : Tagged(x)}}
                    = {weight_combinations[i] : i \in 1..(n - 1)}

-----------------------------------------------------------------------------
(* The shade pass as a parallel map                                        *)
(* The body of the loop of lines 211-235 is run once for every edge by the *)
(* workers, which take the edges in any order and interleave their steps.  *)
(* frame[t] holds the locals of worker t: edge_i (the edge it has) and     *)
(* shade_score.                                                            *)

\* edge i has not been handled and no worker has it
Pending(i) ==
  /\ "shade_score" \notin DOMAIN graph.data[graph.edges[i]]
  /\ \A t \in Threads : ~(frame[t].pc = "score" /\ frame[t].edge_i = i)

\* a freshly built router, one sun position and one blend shared by all workers
FanOutInit ==
  \E w \in Worlds, sun \in SampleSuns, b \in SampleBlends :
    /\ graph = _create_routing_graph(w.street_network)
    /\ building_list = _preprocess_shade_data(w.buildings)
    /\ tree_list = _preprocess_shade_data(w.trees)
    /\ ROUTING_PARAMS = [shade_weight |-> b[1], time_weight |-> b[2]]
    /\ frame = [t \in Threads |->
                  [shade_score |-> <<>>]
                  @@ [IdleFrame EXCEPT !.pc = "take", !.op = "fan_out",
                                       !.sun_position = <<sun>>]]

\* line 211-213: the worker is handed an edge that is still to do
FanOutTake(t) ==
  /\ frame[t].pc = "take"
  /\ IF \E i \in 1..Len(graph.edges) : Pending(i)
     THEN \E i \in 1..Len(graph.edges) :
            Pending(i) /\ Set(t, [pc |-> "score", edge_i |-> i])
     ELSE Set(t, [pc |-> "done", outcome |-> "ok"])
  /\ UNCHANGED <<graph, building_list, tree_list, ROUTING_PARAMS>>

\* lines 215-221: the score of the edge, stored in its attribute dict
FanOutScore(t) ==
  /\ frame[t].pc = "score"
  /\ LET edge == graph.edges[frame[t].edge_i]
         edge_data == graph.data[edge]
         geometry == edge_data.geometry
         shade_score == calculate_street_shade(geometry, building_list, tree_list,
                                               frame[t].sun_position[1])
     IN  /\ graph' = [graph EXCEPT !.data[edge] =
                        [shade_score |-> shade_score] @@ edge_data]
         /\ Set(t, [pc |-> "weigh", shade_score |-> <<shade_score>>])
  /\ UNCHANGED <<building_list, tree_list, ROUTING_PARAMS>>

\* mutant: the weight is computed from a score kept in one place for all
\* edges (the attribute dict of the first edge)
FanOutWeighShared(t) ==
  /\ frame[t].pc = "weigh"
  /\ LET edge == graph.edges[frame[t].edge_i]
         edge_data == graph.data[edge]
         shared == graph.data[graph.edges[1]]
         normalized_shade == IF "shade_score" \in DOMAIN shared
                             THEN shared.shade_score ELSE 0
         combined_weight == ROUTING_PARAMS.time_weight * edge_data.length * ScoreOne
                            + ROUTING_PARAMS.shade_weight
                              * (ScoreOne - normalized_shade) * edge_data.length
     IN  /\ graph' = [graph EXCEPT !.data[edge] =
                        [combined_weight |-> combined_weight] @@ edge_data]
         /\ Set(t, [pc |-> "take"])
  /\ UNCHANGED <<building_list, tree_list, ROUTING_PARAMS>>

\* lines 223-235: the combined weight of the edge from the local shade_score,
\* the edge's length and the blend
FanOutWeigh(t) ==
  /\ frame[t].pc = "weigh"
  /\ LET edge == graph.edges[frame[t].edge_i]
         edge_data == graph.data[edge]
         shade_weight == ROUTING_PARAMS.shade_weight
         time_weight == ROUTING_PARAMS.time_weight
         normalized_shade == frame[t].shade_score[1]
         combined_weight == time_weight * edge_data.length * ScoreOne
                            + shade_weight * (ScoreOne - normalized_shade) * edge_data.length
     IN  /\ graph' = [graph EXCEPT !.data[edge] =
                        [combined_weight |-> combined_weight] @@ edge_data]
         /\ Set(t, [pc |-> "take"])
  /\ UNCHANGED <<building_list, tree_list, ROUTING_PARAMS>>

FanOutNext == \E t \in Threads : FanOutTake(t) \/ FanOutScore(t) \/ FanOutWeigh(t)

SpecFanOut == FanOutInit /\ [][FanOutNext]_vars

\* every worker has found nothing left to do
FanOutDone == \A t \in Threads : frame[t].op = "fan_out" /\ frame[t].pc = "done"

\* what an edge holds now agrees with the sequential pass on every field the
\* pass has written to it so far
AgreesWithPass(e) ==
  LET sequential == ShadePass(graph, frame[1].sun_position[1], ROUTING_PARAMS).data[e]
  IN  \A k \in DOMAIN graph.data[e] : graph.data[e][k] = sequential[k]

\* a step changes the attribute dict of no edge but the one the stepping
\* worker has, and of that edge only shade_score and combined_weight
EdgeLocalStep ==
  \A e \in DOMAIN graph.data :
    graph'.data[e] # graph.data[e] =>
      /\ \E t \in Threads :
           /\ frame[t].pc \in {"score", "weigh"}
           /\ frame'[t] # frame[t]
           /\ graph.edges[frame[t].edge_i] = e
      /\ \A k \in DOMAIN graph.data[e] \ {"shade_score", "combined_weight"} :
           graph'.data[e][k] = graph.data[e][k]

\* C25: in a fan-out of the loop body over the edges, in any order and
\* interleaving, a step writes only shade_score and combined_weight of the
\* edge being handled, every value written is the one the sequential pass
\* writes, and at the end the graph is the graph the sequential pass leaves.
C25_FanOutEqualsSequential ==
  /\ [](/\ \A e \in DOMAIN graph.data : AgreesWithPass(e)
        /\ FanOutDone =>
             graph = ShadePass(graph, frame[1].sun_position[1], ROUTING_PARAMS))
  /\ [][EdgeLocalStep]_vars

\* the fan-out is over, by day, on the six edges of the diamond with both
\* weights positive, and two edges ended with different scores
C25_Witness ==
  /\ FanOutDone
  /\ frame[1].sun_position[1].elevation > 0
  /\ ROUTING_PARAMS.shade_weight > 0 /\ ROUTING_PARAMS.time_weight > 0
  /\ Len(graph.edges) = 6
  /\ \A e \in DOMAIN graph.data : "combined_weight" \in DOMAIN graph.data[e]
  /\ \E e1, e2 \in DOMAIN graph.data :
       graph.data[e1].shade_score # graph.data[e2].shade_score

\* the sum of attribute field over the hops of a node sequence
RECURSIVE HopSum(_, _)
HopSum(p, field) ==
  IF Len(p) < 2 THEN 0
  ELSE graph.data[{p[1], p[2]}][field] + HopSum(Tail(p), field)

\* thread t has just left the path search with a path
SearchDone(t) == frame[t].pc = "metrics"

\* C26: the path the search hands on runs from the start node to the end
\* node, and no path of the graph between the two nodes has a smaller sum of
\* combined_weight over its edges.
C26_LeastCombinedWeight ==
  \A t \in Threads :
    SearchDone(t) =>
      LET path == frame[t].path
      IN  /\ path[1] = frame[t].start_node[1]
          /\ path[Len(path)] = frame[t].end_node[1]
          /\ \A p \in SimplePaths(graph, frame[t].start_node[1], frame[t].end_node[1]) :
               HopSum(path, "combined_weight") <= HopSum(p, "combined_weight")

\* the path handed on is strictly longer in metres than another path between
\* the same nodes, and strictly lighter in combined_weight
C26_Witness ==
  /\ SearchDone(1)
  /\ \E p \in SimplePaths(graph, frame[1].start_node[1], frame[1].end_node[1]) :
       /\ HopSum(p, "length") < HopSum(frame[1].path, "length")
       /\ HopSum(frame[1].path, "combined_weight") < HopSum(p, "combined_weight")

\* the date and time strings of the call of thread t, where given, parse
WellFormedArgs(t) ==
  /\ frame[t].args.date = <<>> \/ DateWellFormed(frame[t].args.date[1])
  /\ frame[t].args.time_of_day = <<>> \/ TimeWellFormed(frame[t].args.time_of_day[1])

\* C27 as stated: a finished call whose date and time are well formed (hour
\* 0 to 23, the evening hours 19:00 to 23:59 included) has got a sun position
\* and has not failed with an input error.
C27_WellFormedTimeAccepted ==
  \A t \in Threads :
    (frame[t].pc = "done" /\ frame[t].op \in {"find", "alternatives"}
       /\ WellFormedArgs(t)) =>
      /\ frame[t].outcome \notin {"InvalidInput", "ValueError"}
      /\ frame[t].sun_position # <<>>

\* a mean that is a number between 0 and 1
DefinedInUnit(mean) ==
  /\ mean.den # 0
  /\ 0 <= mean.num
  /\ mean.num <= mean.den * ScoreOne

\* C28 as stated: the average_shade_score of every route returned by
\* find_shadiest_route or held in the list of get_route_alternatives is a
\* defined number between 0 and 1, also for a path of one node.
C28_AverageDefined ==
  \A t \in Threads :
    (frame[t].pc = "done" /\ frame[t].outcome = "ok"
       /\ frame[t].op \in {"find", "alternatives"}) =>
      \A i \in 1..Len(frame[t].result) :
        DefinedInUnit(frame[t].result[i].average_shade_score)

\* a finished call that returned, for a sun at or below the horizon
NightDone(t) ==
  /\ frame[t].pc = "done" /\ frame[t].outcome = "ok"
  /\ frame[t].op \in {"find", "alternatives"}
  /\ frame[t].sun_position[1].elevation <= 0

\* route r is as short as any path between the nodes of the call of thread t
Shortest(t, r) ==
  \A p \in SimplePaths(graph, frame[t].start_node[1], frame[t].end_node[1]) :
    r.total_distance <= HopSum(p, "length")

\* the average_shade_score of route r is 1.0
FullShade(r) ==
  /\ r.average_shade_score.den # 0
  /\ r.average_shade_score.num = r.average_shade_score.den * ScoreOne

\* C29 as stated: at night, with time_weight > 0, every edge has shade_score
\* 1.0 and combined_weight time_weight * length, the route of
\* find_shadiest_route has the least total_distance among the paths between
\* the two nodes, and every route of get_route_alternatives has that same
\* total_distance and average_shade_score 1.0.
C29_NightRouteShortest ==
  \A t \in Threads :
    (NightDone(t) /\ ROUTING_PARAMS.time_weight > 0) =>
      /\ \A e \in DOMAIN graph.data :
           /\ graph.data[e].shade_score = ScoreOne
           /\ frame[t].op = "find" =>
                graph.data[e].combined_weight
                  = ROUTING_PARAMS.time_weight * graph.data[e].length * ScoreOne
      /\ \A i \in 1..Len(frame[t].result) :
           /\ Shortest(t, frame[t].result[i])
           /\ Tagged(frame[t].result[i]) => FullShade(frame[t].result[i])

\* C30: no call ever holds a path found by the length search: when the
\* combined_weight search has found no path, the step of the length search
\* ends in the NoPathFound failure (or in another exception inside the try
\* of get_route_alternatives), never in a path.
C30_FallbackNeverSucceeds ==
  /\ [](\A t \in Threads : ~frame[t].used_fallback)
  /\ [][\A t \in Threads :
          (frame[t].pc = "fallback" /\ frame'[t] # frame[t]) =>
            /\ frame'[t].pc \in {"done", "restore"}
            /\ frame'[t].path = <<>>
            /\ frame'[t].pc = "done" => frame'[t].outcome = "NoPathFound"
            /\ frame'[t].pc = "restore" => frame'[t].exc \in {"NoPathFound", "Fault"}]_vars

\* the primary query of get_route_alternatives has failed after both searches
C30_Witness ==
  /\ frame[1].op = "alternatives"
  /\ frame[1].pc = "done"
  /\ frame[1].outcome = "NoPathFound"
  /\ frame[1].start_node # <<>> /\ frame[1].end_node # <<>>
  /\ ~Connected(graph, frame[1].start_node[1], frame[1].end_node[1])
  /\ ~frame[1].used_fallback

=============================================================================
